---- MODULE Spec2Model ----
(***************************************************************************)
(* A model of the ant game of src/game.py: the event loop Game.run, the    *)
(* game state machine, placement, eating, poisoning, clicking, and the     *)
(* ant's targeting and steering.                                           *)
(*                                                                         *)
(* Positions are whole pixels.  Angles are integers in units of            *)
(* Ant.ROT = pi/75, so pi is 75 units and a full turn is 150.  math.cos    *)
(* and math.sin are the table CosTab (scaled by 1000); math.atan2 is the   *)
(* unit whose direction is best aligned with the vector.                   *)
(*                                                                         *)
(* A GameObject has no __eq__/__hash__, so Python compares it by identity. *)
(* An entity is modelled by its position and the epoch (parity of the      *)
(* number of start() calls) it was created in, and a collection of         *)
(* entities is a bag: two objects at the same position are two copies.     *)
(***************************************************************************)
EXTENDS Integers, Sequences, FiniteSets, Bags, TLC

VARIABLES
    state,         \* Game.state
    lives,         \* Game.lives
    score,         \* Game.score
    speed,         \* Game.ant.speed
    antPos,        \* Game.ant.position
    direction,     \* Game.ant.direction
    target,        \* Game.ant.target (NoTarget: the attribute is not set yet)
    food,          \* Game.food
    poison,        \* Game.poison
    startTimer,    \* the Game.START timer is armed
    restartTimer,  \* the Game.RESTART timer is armed
    epoch,         \* parity of the number of start() calls so far
    pc,            \* "running", "quit" (running = False) or "crashed" (uncaught exception)
    last,          \* what the last event did (a click that hits nothing while PLAYING leaves no trace)
    arg,           \* a function called on its own: its input besides the state
    ret            \* a function called on its own: what it returned

vars == <<state, lives, score, speed, antPos, direction, target, food, poison,
          startTimer, restartTimer, epoch, pc, last, arg, ret>>

\* used only by the specifications that call one function on its own
aux == <<arg, ret>>

----------------------------------------------------------------------------
(* Program constants *)

START_SPEED == 5
MIN_POISON == 6
NUM_FOOD == 4
Width == 800
Height == 600
Pad == 50
AntGap == 200
ItemGap == 50
EatScore == 100
SpeedEvery == 1000
PoisonEvery == 5000
PoisonGate == 30000
StartLives == 3
\* dmin = 10**15 of choose_food; the model compares squared distances, which
\* stay below this on the board
DMIN0 == 2000000000
\* pi in units of Ant.ROT = pi/75
PI == 75
\* sprite sizes (max of width and height of the loaded images)
AntSize == 50
PoisonSize == 40

(* Bounds of the model *)

\* how many of the sample positions random.randint may produce
MaxSample == 5
\* the ant stops once it has eaten this many times
MaxEats == 2
\* how many of the sample positions the mouse may click near
MaxClick == 2
\* choose_food on its own: the longest collection
MaxOrder == 3
\* move() on its own: the directions tried are -DirSpan..DirSpan
DirSpan == 110
\* good_position() on its own: the largest food set and poison set
MaxItems == 2
\* one tick on its own: the most poison items that lie together next to the food
MaxNear == 2

----------------------------------------------------------------------------
(* Geometry *)

Center == <<Width \div 2, Height \div 2>>

\* the square of distance(p, q)
Dist2(p, q) == (p[1] - q[1]) * (p[1] - q[1]) + (p[2] - q[2]) * (p[2] - q[2])

Abs(n) == IF n < 0 THEN -n ELSE n

\* n / d rounded to the nearest integer (d > 0), halves away from zero
Round(n, d) == IF n >= 0 THEN (2 * n + d) \div (2 * d) ELSE -((2 * (-n) + d) \div (2 * d))

\* 1000 * cos(k * pi/75) for k = 0..75
CosTab == <<1000, 999, 996, 992, 986, 978, 969, 957, 944, 930, 914, 896, 876, 855,
            833, 809, 784, 757, 729, 700, 669, 637, 605, 571, 536, 500, 463, 426,
            388, 349, 309, 269, 228, 187, 146, 105, 63, 21, -21, -63, -105, -146,
            -187, -228, -269, -309, -349, -388, -426, -463, -500, -536, -571, -605,
            -637, -669, -700, -729, -757, -784, -809, -833, -855, -876, -896, -914,
            -930, -944, -957, -969, -978, -986, -992, -996, -999, -1000>>

\* an angle brought into -74..75 (cos and sin have period 2 pi)
Wrap(a) == ((a + PI - 1) % (2 * PI)) - (PI - 1)

\* 1000 * math.cos(a)
Cos(a) == CosTab[Abs(Wrap(a)) + 1]

\* 1000 * sin(k * pi/75) for k = 0..75
SinTab == <<0, 42, 84, 125, 167, 208, 249, 289, 329, 368, 407, 445, 482, 518,
            553, 588, 621, 653, 685, 714, 743, 771, 797, 821, 844, 866, 886,
            905, 922, 937, 951, 963, 974, 982, 989, 995, 998, 1000, 1000, 998,
            995, 989, 982, 974, 963, 951, 937, 922, 905, 886, 866, 844, 821,
            797, 771, 743, 714, 685, 653, 621, 588, 553, 518, 482, 445, 407,
            368, 329, 289, 249, 208, 167, 125, 84, 42, 0>>

\* 1000 * math.sin(a)
Sin(a) == LET w == Wrap(a) IN IF w < 0 THEN -SinTab[(-w) + 1] ELSE SinTab[w + 1]

----------------------------------------------------------------------------
(* Entities and collections *)

NoTarget == [pos |-> <<0, 0>>, gen |-> 2]

Entity(p, g) == [pos |-> p, gen |-> g]

BagAdd(b, e) == b (+) SetToBag({e})

BagRemove(b, e) == b (-) SetToBag({e})

\* the orders in which Python may iterate over collection b
RECURSIVE Orders(_)
Orders(b) ==
    IF BagToSet(b) = {} THEN {<< >>}
    ELSE UNION {{<<e>> \o s : s \in Orders(BagRemove(b, e))} : e \in BagToSet(b)}

\* the bags of k elements of S
RECURSIVE BagsOf(_, _)
BagsOf(S, k) ==
    IF k = 0 THEN {EmptyBag}
    ELSE IF S = {} THEN {}
    ELSE LET x == CHOOSE y \in S : TRUE
         IN  UNION {{[e \in {x} |-> n] (+) b : b \in BagsOf(S \ {x}, k - n)} : n \in 1..k}
             \cup BagsOf(S \ {x}, k)

----------------------------------------------------------------------------
(* Ant *)

\* (mutant) the loop with d <= dmin: the last of several closest items wins
RECURSIVE ChooseLoop_last(_, _, _, _, _)
ChooseLoop_last(pos, order, i, dmin, tgt) ==
    IF i > Len(order) THEN tgt
    ELSE LET d == Dist2(pos, order[i].pos)
         IN  IF d <= dmin THEN ChooseLoop_last(pos, order, i + 1, d, order[i])
             ELSE ChooseLoop_last(pos, order, i + 1, dmin, tgt)

\* Ant.choose_food: the loop over the collection, from item i on
RECURSIVE ChooseLoop(_, _, _, _, _)
ChooseLoop(pos, order, i, dmin, tgt) ==
    IF i > Len(order) THEN tgt
    ELSE LET d == Dist2(pos, order[i].pos)
         IN  IF d < dmin THEN ChooseLoop(pos, order, i + 1, d, order[i])
             ELSE ChooseLoop(pos, order, i + 1, dmin, tgt)

\* (mutant) choose_food that never sets the target
choose_food_keep(pos, tgt, order) == tgt

\* Ant.choose_food(food): the new target, iterating over food in this order
choose_food(pos, tgt, order) == ChooseLoop(pos, order, 1, DMIN0, tgt)

Dot(vx, vy, a) == Cos(a) * vx + Sin(a) * vy

\* math.atan2(vy, vx) for a non-zero vector, in -74..75: the unit of the
\* quadrant of the vector whose direction is best aligned with it
Atan2(vy, vx) ==
    LET quadrant == IF vy >= 0
                    THEN (IF vx >= 0 THEN 0..38 ELSE 37..PI)
                    ELSE (IF vx >= 0 THEN (-38)..0 ELSE (-(PI - 1))..(-37))
        dots == [a \in quadrant |-> Dot(vx, vy, a)]
    IN  CHOOSE a \in quadrant : \A b \in quadrant : dots[a] >= dots[b]

\* (mutant) move() without its two while loops
NormDir_none(d) == d

\* the two while loops of move(): the direction brought into [-pi, pi]
RECURSIVE NormDir(_)
NormDir(d) ==
    IF d > PI THEN NormDir(d - 2 * PI)
    ELSE IF d < -PI THEN NormDir(d + 2 * PI)
    ELSE d

\* the wrapping of the turn, as the two ifs of move() compute it
WrapTurn(turn) ==
    LET t1 == IF turn > PI THEN -2 * PI + turn ELSE turn
    IN  IF t1 < -PI THEN 2 * PI - t1 ELSE t1

\* (mutant) the clamping without its second line, the max
ClampTurn_nomax(turn, spd) == IF spd < turn THEN spd ELSE turn

\* the clamping of the turn to the turn rate
ClampTurn(turn, spd) ==
    LET t1 == IF spd < turn THEN spd ELSE turn
    IN  IF -spd > t1 THEN -spd ELSE t1

\* the turn move() adds to the normalized direction
Turn(theta, dir, spd) == ClampTurn(WrapTurn(theta - NormDir(dir)), spd)

\* move() divides by the norm n: it raises ZeroDivisionError when the ant is on its target
MoveRaises(pos, tgt) == Dist2(pos, tgt.pos) = 0

\* the direction after move()
MoveDir(pos, dir, spd, tgt) ==
    LET theta == Atan2(tgt.pos[2] - pos[2], tgt.pos[1] - pos[1])
    IN  NormDir(dir) + Turn(theta, dir, spd)

\* the position after move(), a step of length speed in the new direction
MovePos(pos, newdir, spd) ==
    <<pos[1] + Round(Cos(newdir) * spd, 1000), pos[2] + Round(Sin(newdir) * spd, 1000)>>

----------------------------------------------------------------------------
(* Placement *)

\* positions the model lets random.randint produce
Samples == << <<620, 300>>, <<700, 300>>, <<180, 300>>, <<100, 300>>, <<400, 450>>,
              <<400, 160>> >>

\* the draws of good_position(): randint(50, width-50), randint(50, height-50)
RandomPositions ==
    {Samples[i] : i \in 1..MaxSample} \cap
        ((Pad..(Width - Pad)) \X (Pad..(Height - Pad)))

Positions(b) == {e.pos : e \in BagToSet(b)}

\* (mutant) the test with the loop over the poison alone
Good_poison(position, ant, pois, fd) ==
    /\ ~(Dist2(ant, position) < AntGap * AntGap)
    /\ \A x \in Positions(pois) : ~(Dist2(x, position) < ItemGap * ItemGap)

\* the test of one draw in good_position()
Good(position, ant, pois, fd) ==
    /\ ~(Dist2(ant, position) < AntGap * AntGap)
    /\ \A x \in Positions(pois) \cup Positions(fd) :
           ~(Dist2(x, position) < ItemGap * ItemGap)

\* the positions good_position() can return
good_position(ant, pois, fd) == {p \in RandomPositions : Good(p, ant, pois, fd)}

----------------------------------------------------------------------------
(* Game *)

\* (mutant) np without the score
NumPoison_min(sc) == MIN_POISON

\* np of start()
NumPoison(sc) == MIN_POISON + sc \div PoisonEvery

\* start(), called with score sc
start(sc) ==
    \E fd \in BagsOf({Entity(p, 1 - epoch) : p \in good_position(Center, poison, food)},
                     NUM_FOOD) :
    \E ps \in BagsOf({Entity(p, 1 - epoch) : p \in good_position(Center, poison, fd)},
                     NumPoison(sc)) :
    \E order \in Orders(fd) :
        /\ antPos' = Center
        /\ food' = fd
        /\ poison' = ps
        /\ target' = choose_food(Center, target, order)
        /\ state' = "PLAYING"
        /\ epoch' = 1 - epoch

\* (mutant) restart() that leaves the ant's speed as it is
restart_nospeed ==
    /\ lives' = StartLives
    /\ score' = 0
    /\ speed' = speed
    /\ start(0)

\* restart()
restart ==
    /\ lives' = StartLives
    /\ score' = 0
    /\ speed' = START_SPEED
    /\ start(0)

\* (mutant) die() that does not arm the resume timer
die_noarm ==
    /\ lives' = lives - 1
    /\ state' = "DYING"
    /\ startTimer' = startTimer

\* die()
die ==
    /\ lives' = lives - 1
    /\ state' = "DYING"
    /\ startTimer' = TRUE

\* (mutant) game_over() that does not arm the restart timer
game_over_noarm ==
    /\ state' = "GAME_OVER"
    /\ restartTimer' = restartTimer

\* game_over()
game_over ==
    /\ state' = "GAME_OVER"
    /\ restartTimer' = TRUE

\* (mutant) the test as self.lives < 0
OutOfLives_negative(n) == n < 0

\* (mutant) the test as self.lives <= 1
OutOfLives_early(n) == n <= 1

\* the test of the resume timer's handler: self.lives == 0
OutOfLives(n) == n = 0

\* (mutant) eating that forgets to remove the target
FoodAfterEat_keep(fd, tgt, new) == BagAdd(fd, new)

\* the food set after check_ant_eating() has removed the target and added item new
FoodAfterEat(fd, tgt, new) == BagAdd(BagRemove(fd, tgt), new)

\* the test of check_ant_eating()
Eats(pos, tgt, spd) == Dist2(pos, tgt.pos) < spd * spd

\* the test of check_ant_poisoned() for one poison item
Poisons(pos, p) == 9 * Dist2(pos, p.pos) < (AntSize + PoisonSize) * (AntSize + PoisonSize)

\* check_ant_poisoned() calls die()
Poisoned(pos, pois) == \E p \in BagToSet(pois) : Poisons(pos, p)

\* (mutant) a speed that grows with every item eaten
SpeedAfterEat_always(spd, sc) == spd + 1

\* the speed after eating has brought the score to sc
SpeedAfterEat(spd, sc) == IF sc % SpeedEvery = 0 THEN spd + 1 ELSE spd

\* (mutant) eating that never adds poison
GrowsPoison_never(sc) == FALSE

\* eating adds a poison item when it has brought the score to sc
GrowsPoison(sc) == sc % PoisonEvery = 0 /\ sc < PoisonGate

\* the test of clicked() for one poison item
InClickRange(position, p) == 4 * Dist2(p.pos, position) < PoisonSize * PoisonSize

\* (mutant) clicked() that removes the items and adds none
ClickLoop_drop(ant, fd, gen, pois, todo) == {pois (-) todo}

\* clicked(): the poison sets the loop over the snapshot can end with; todo holds
\* the items of the snapshot in range that the loop has not reached yet
RECURSIVE ClickLoop(_, _, _, _, _)
ClickLoop(ant, fd, gen, pois, todo) ==
    IF BagToSet(todo) = {} THEN {pois}
    ELSE UNION {
           UNION {ClickLoop(ant, fd, gen, BagAdd(BagRemove(pois, p), Entity(n, gen)),
                            BagRemove(todo, p))
                  : n \in good_position(ant, BagRemove(pois, p), fd)}
           : p \in BagToSet(todo)}

\* the items of pois within range of a click
ClickHits(position, pois) ==
    LET hit == {p \in BagToSet(pois) : InClickRange(position, p)}
    IN  [p \in hit |-> CopiesIn(p, pois)]

clicked(position) ==
    poison' \in ClickLoop(antPos, food, epoch, poison, ClickHits(position, poison))

----------------------------------------------------------------------------
(* The event loop Game.run: one action per event *)

\* a click just inside and just outside the range PoisonSize / 2 of an item there
ClickOffsets == {19, 20}

\* positions the model lets the mouse click at
ClickPositions ==
    {<<Samples[i][1] + dx, Samples[i][2]>> : i \in 1..MaxClick, dx \in ClickOffsets}

Init ==
    /\ state = "STARTING"
    /\ lives = StartLives
    /\ score = 0
    /\ speed = START_SPEED
    /\ antPos = Center
    /\ direction = 0
    /\ target = NoTarget
    /\ food = EmptyBag
    /\ poison = EmptyBag
    /\ startTimer = FALSE
    /\ restartTimer = FALSE
    /\ epoch = 0
    /\ pc = "running"
    /\ last = "init"
    /\ arg = << >>
    /\ ret = << >>

\* scores at which the mid-game specification SpecMid picks the game up
MidScores == {4900, 29900}

\* the bound on eating: the ant moves while it has eaten fewer than MaxEats times
\* since the game began (score 0) or since SpecMid picked the game up
CanEat(sc) == \E b \in {0} \cup MidScores : b <= sc /\ sc < b + MaxEats * EatScore

\* (mutant) the poisoning check first, and no eating check once the ant dies
EatAndPoison_poisonfirst(pos) ==
    IF Poisoned(pos, poison)
    THEN /\ die
         /\ last' = "die"
         /\ UNCHANGED <<score, speed, poison, food, target>>
    ELSE /\ UNCHANGED <<lives, state, startTimer>>
         /\ IF Eats(pos, target, speed)
            THEN LET food1 == BagRemove(food, target)
                     score1 == score + EatScore
                 IN  /\ score' = score1
                     /\ speed' = SpeedAfterEat(speed, score1)
                     /\ \E ps \in (IF GrowsPoison(score1)
                                   THEN {BagAdd(poison, Entity(n, epoch))
                                         : n \in good_position(pos, poison, food1)}
                                   ELSE {poison}) :
                        \E nf \in good_position(pos, ps, food1) :
                        \E order \in Orders(FoodAfterEat(food, target, Entity(nf, epoch))) :
                            /\ poison' = ps
                            /\ food' = FoodAfterEat(food, target, Entity(nf, epoch))
                            /\ target' = choose_food(pos, target, order)
                            /\ last' = "eat"
            ELSE /\ UNCHANGED <<score, speed, poison, food, target>>
                 /\ last' = "move"

\* check_ant_eating() then check_ant_poisoned(), the ant having moved to pos
EatAndPoison(pos) ==
    IF Eats(pos, target, speed)
    THEN LET food1 == BagRemove(food, target)
             score1 == score + EatScore
         IN  /\ score' = score1
             /\ speed' = SpeedAfterEat(speed, score1)
             /\ \E ps \in (IF GrowsPoison(score1)
                           THEN {BagAdd(poison, Entity(n, epoch))
                                 : n \in good_position(pos, poison, food1)}
                           ELSE {poison}) :
                \E nf \in good_position(pos, ps, food1) :
                \E order \in Orders(FoodAfterEat(food, target, Entity(nf, epoch))) :
                    /\ poison' = ps
                    /\ food' = FoodAfterEat(food, target, Entity(nf, epoch))
                    /\ target' = choose_food(pos, target, order)
                    /\ IF Poisoned(pos, ps)
                       THEN die /\ last' = "eat_die"
                       ELSE UNCHANGED <<lives, state, startTimer>> /\ last' = "eat"
    ELSE /\ UNCHANGED <<score, speed, poison, food, target>>
         /\ IF Poisoned(pos, poison)
            THEN die /\ last' = "die"
            ELSE UNCHANGED <<lives, state, startTimer>> /\ last' = "move"

\* Ant.move(), when it does not raise
move ==
    LET newdir == MoveDir(antPos, direction, speed, target)
    IN  /\ direction' = newdir
        /\ antPos' = MovePos(antPos, newdir, speed)

\* (mutant) a REFRESH handler without the test self.state == Game.PLAYING
Tick_always ==
    /\ pc = "running"
    /\ CanEat(score)
    /\ IF MoveRaises(antPos, target)
       THEN /\ pc' = "crashed"
            /\ last' = "crash"
            /\ UNCHANGED <<state, lives, score, speed, antPos, direction, target, food,
                           poison, startTimer, restartTimer, epoch, aux>>
       ELSE /\ move
            /\ last' = "move"
            /\ UNCHANGED <<state, lives, score, speed, target, food, poison, startTimer,
                           restartTimer, epoch, pc, aux>>

\* event.type == Game.REFRESH
Tick ==
    /\ pc = "running"
    /\ state = "PLAYING" => CanEat(score)
    /\ IF state # "PLAYING"
       THEN /\ last' = "idle_tick"
            /\ UNCHANGED <<state, lives, score, speed, antPos, direction, target, food,
                           poison, startTimer, restartTimer, epoch, pc, aux>>
       ELSE IF MoveRaises(antPos, target)
       THEN /\ pc' = "crashed"
            /\ last' = "crash"
            /\ UNCHANGED <<state, lives, score, speed, antPos, direction, target, food,
                           poison, startTimer, restartTimer, epoch, aux>>
       ELSE /\ move
            /\ EatAndPoison(antPos')
            /\ UNCHANGED <<restartTimer, epoch, pc, aux>>

\* event.type == pygame.MOUSEBUTTONDOWN
Click ==
    /\ pc = "running"
    /\ \E position \in ClickPositions :
        IF state = "PLAYING"
        THEN /\ clicked(position)
             /\ last' = IF BagToSet(ClickHits(position, poison)) = {} THEN last ELSE "click"
             /\ UNCHANGED <<state, lives, score, speed, antPos, direction, target, food,
                            startTimer, restartTimer, epoch, pc, aux>>
        ELSE IF state = "STARTING"
        THEN /\ restart
             /\ last' = "restart"
             /\ UNCHANGED <<direction, startTimer, restartTimer, pc, aux>>
        ELSE /\ last' = "idle_click"
             /\ UNCHANGED <<state, lives, score, speed, antPos, direction, target, food,
                            poison, startTimer, restartTimer, epoch, pc, aux>>

\* event.type == Game.START
StartTimerFires ==
    /\ pc = "running"
    /\ startTimer
    /\ startTimer' = FALSE
    /\ IF OutOfLives(lives)
       THEN /\ game_over
            /\ last' = "game_over"
            /\ UNCHANGED <<lives, score, speed, antPos, direction, target, food, poison,
                           epoch, pc, aux>>
       ELSE /\ start(score)
            /\ last' = "resume"
            /\ UNCHANGED <<lives, score, speed, direction, restartTimer, pc, aux>>

\* event.type == Game.RESTART
RestartTimerFires ==
    /\ pc = "running"
    /\ restartTimer
    /\ restartTimer' = FALSE
    /\ state' = "STARTING"
    /\ last' = "starting"
    /\ UNCHANGED <<lives, score, speed, antPos, direction, target, food, poison,
                   startTimer, epoch, pc, aux>>

\* event.type == pygame.QUIT, or the escape key
Quit ==
    /\ pc = "running"
    /\ pc' = "quit"
    /\ last' = "quit"
    /\ UNCHANGED <<state, lives, score, speed, antPos, direction, target, food, poison,
                   startTimer, restartTimer, epoch, aux>>

Next == Tick \/ Click \/ StartTimerFires \/ RestartTimerFires \/ Quit

Spec == Init /\ [][Next]_vars

----------------------------------------------------------------------------
(* The mid-game: the game picked up late, where the program is after the ant *)
(* has eaten MidScores / 100 times and lost its first life, right after the  *)
(* resume timer has called start(): one food item near (FoodNear) and three  *)
(* far (FoodFar), with all the poison in between (PoisonMid).  SpecMid does  *)
(* not follow a new game after restart().                                    *)

FoodNear == Entity(<<180, 300>>, 0)
FoodFar == Entity(<<50, 300>>, 0)
PoisonMid == Entity(<<100, 300>>, 0)

InitMid ==
    /\ state = "PLAYING"
    /\ lives = StartLives - 1
    /\ score \in MidScores
    /\ speed = START_SPEED + score \div SpeedEvery
    /\ antPos = Center
    /\ direction = 0
    /\ target = FoodNear
    /\ food = [e \in {FoodNear, FoodFar} |-> IF e = FoodNear THEN 1 ELSE NUM_FOOD - 1]
    /\ poison = [e \in {PoisonMid} |-> NumPoison(score)]
    /\ startTimer = FALSE
    /\ restartTimer = FALSE
    /\ epoch = 0
    /\ pc = "running"
    /\ last = "resume"
    /\ arg = << >>
    /\ ret = << >>

TickMid == (state = "PLAYING" => score > 0) /\ Tick

NextMid == TickMid \/ Click \/ StartTimerFires \/ RestartTimerFires \/ Quit

SpecMid == InitMid /\ [][NextMid]_vars

\* Fair delivery of the timer events: pygame posts the event of an armed timer
\* when its delay has passed, and the loop takes every event off the queue.
SpecMidFair == SpecMid /\ WF_vars(StartTimerFires) /\ WF_vars(RestartTimerFires)

----------------------------------------------------------------------------
(* One REFRESH event on its own, late in the game (score 29900, speed 34):   *)
(* the ant is about to reach FoodNear, with up to MaxNear poison items lying *)
(* together at PoisonNear, 55 from the food, and the other poison far away.  *)

PoisonNear == Entity(<<125, 295>>, 0)
PoisonFar == Entity(<<700, 500>>, 0)

\* where the ant is before the tick, and where it is heading
TickStarts == {<<149, 334>>, <<220, 300>>, <<125, 340>>, <<300, 300>>}
TickDirs == {-71, 75, -37, 0}

InitTick ==
    /\ state = "PLAYING"
    /\ lives \in 1..StartLives
    /\ score = 29900
    /\ speed = START_SPEED + score \div SpeedEvery
    /\ antPos \in TickStarts
    /\ direction \in TickDirs
    /\ target = FoodNear
    /\ food = [e \in {FoodNear, FoodFar} |-> IF e = FoodNear THEN 1 ELSE NUM_FOOD - 1]
    /\ \E n \in 0..MaxNear :
          poison = [e \in {PoisonFar} |-> NumPoison(score) - n]
                   (+) [e \in (IF n = 0 THEN {} ELSE {PoisonNear}) |-> n]
    /\ ~Poisoned(antPos, poison)
    /\ ~Eats(antPos, target, speed)
    /\ startTimer = FALSE
    /\ restartTimer = FALSE
    /\ epoch = 0
    /\ pc = "running"
    /\ last = "resume"
    /\ arg = << >>
    /\ ret = << >>

\* the REFRESH event
TickCall ==
    /\ last = "resume"
    /\ Tick

SpecTick == InitTick /\ [][TickCall]_vars

----------------------------------------------------------------------------
(* Three functions called on their own, on inputs drawn from bounded sets *)

\* the state the game is in besides what a function called on its own reads
Rest ==
    /\ state = "PLAYING"
    /\ lives = StartLives
    /\ score = 0
    /\ startTimer = FALSE
    /\ restartTimer = FALSE
    /\ epoch = 0
    /\ pc = "running"
    /\ last = "init"
    /\ ret = << >>

\* entities two of which are as far from Center as each other, and two of
\* which are as far from Samples[3] as each other
ChooseItems ==
    {Entity(Samples[1], 0), Entity(Samples[3], 0), Entity(Samples[4], 0),
     Entity(<<260, 300>>, 0)}

RECURSIVE SeqsUpTo(_, _)
SeqsUpTo(S, n) ==
    IF n = 0 THEN {<< >>}
    ELSE LET shorter == SeqsUpTo(S, n - 1)
         IN  shorter \cup {Append(s, x) : s \in shorter, x \in S}

RECURSIVE BagOfSeq(_)
BagOfSeq(s) == IF s = << >> THEN EmptyBag ELSE BagAdd(BagOfSeq(Tail(s)), Head(s))

InitChoose ==
    /\ Rest
    /\ antPos \in {Center, Samples[3]}
    /\ direction = 0
    /\ speed = START_SPEED
    /\ arg \in SeqsUpTo(ChooseItems, MaxOrder)
    /\ food = BagOfSeq(arg)
    /\ poison = EmptyBag
    /\ target \in {NoTarget, Entity(Samples[2], 0)}

\* self.ant.choose_food(food), food iterated in the order arg; ret keeps the old target
ChooseCall ==
    /\ last = "init"
    /\ target' = choose_food(antPos, target, arg)
    /\ ret' = target
    /\ last' = "choose_food"
    /\ UNCHANGED <<state, lives, score, speed, antPos, direction, food, poison,
                   startTimer, restartTimer, epoch, pc, arg>>

SpecChoose == InitChoose /\ [][ChooseCall]_vars

\* targets in every quadrant, on the axes, and on the ant itself
MoveTargets ==
    {Entity(p, 0) : p \in {<<620, 300>>, <<180, 300>>, <<400, 450>>, <<400, 160>>,
                            <<560, 90>>, <<250, 150>>, <<150, 450>>, <<700, 500>>,
                            <<403, 304>>, <<400, 300>>}}

InitMove ==
    /\ Rest
    /\ antPos = Center
    /\ direction \in (-DirSpan)..DirSpan
    /\ speed \in {START_SPEED, START_SPEED + 1, START_SPEED + PoisonGate \div SpeedEvery}
    /\ arg = << >>
    /\ target \in MoveTargets
    /\ food = SetToBag({target})
    /\ poison = EmptyBag

\* self.ant.move(); arg keeps the direction before the call
MoveCall ==
    /\ last = "init"
    /\ IF MoveRaises(antPos, target)
       THEN /\ pc' = "crashed"
            /\ last' = "crash"
            /\ UNCHANGED <<antPos, direction, arg>>
       ELSE /\ move
            /\ arg' = direction
            /\ last' = "move"
            /\ UNCHANGED pc
    /\ UNCHANGED <<state, lives, score, speed, target, food, poison, startTimer,
                   restartTimer, epoch, ret>>

SpecMove == InitMove /\ [][MoveCall]_vars

\* entities on sample positions and less than ItemGap away from them
PlaceItems ==
    {Entity(p, 0) : p \in {Samples[1], Samples[3], Samples[5], <<660, 300>>,
                            <<140, 330>>, <<400, 490>>}}

BagsUpTo(S, n) == UNION {BagsOf(S, k) : k \in 0..n}

InitPlace ==
    /\ Rest
    /\ antPos \in {Center, Samples[1], <<300, 300>>}
    /\ direction = 0
    /\ speed = START_SPEED
    /\ arg = << >>
    /\ target = NoTarget
    /\ food \in BagsUpTo(PlaceItems, MaxItems)
    /\ poison \in BagsUpTo(PlaceItems, MaxItems)

\* self.good_position(); ret keeps the position returned
PlaceCall ==
    /\ last = "init"
    /\ \E position \in good_position(antPos, poison, food) : ret' = position
    /\ last' = "good_position"
    /\ UNCHANGED <<state, lives, score, speed, antPos, direction, target, food, poison,
                   startTimer, restartTimer, epoch, pc, arg>>

SpecPlace == InitPlace /\ [][PlaceCall]_vars

----------------------------------------------------------------------------
(* Properties *)

\* C1: the game state changes only along STARTING -> PLAYING (a click),
\* PLAYING -> DYING (the ant is poisoned, one life less), DYING -> GAME_OVER
\* (the resume timer fires with no life left), DYING -> PLAYING (it fires with
\* a life left) and GAME_OVER -> STARTING (the restart timer fires).
C1_Transitions ==
    [][state' # state =>
         \/ /\ state = "STARTING" /\ state' = "PLAYING"
            /\ last' = "restart"
         \/ /\ state = "PLAYING" /\ state' = "DYING"
            /\ last' \in {"die", "eat_die"}
            /\ Poisoned(antPos', poison')
            /\ lives' = lives - 1
         \/ /\ state = "DYING" /\ state' = "GAME_OVER"
            /\ last' = "game_over"
            /\ startTimer
            /\ lives = 0 /\ lives' = 0
         \/ /\ state = "DYING" /\ state' = "PLAYING"
            /\ last' = "resume"
            /\ startTimer
            /\ lives > 0
         \/ /\ state = "GAME_OVER" /\ state' = "STARTING"
            /\ last' = "starting"
            /\ restartTimer]_vars

\* the last life was lost and the resume timer has fired
C1_Witness == state = "GAME_OVER" /\ last = "game_over" /\ lives = 0

\* C2: once the game has started, the food set has exactly 4 members.
C2_FoodCount ==
    state \in {"PLAYING", "DYING", "GAME_OVER"} => BagCardinality(food) = 4

\* the ant has eaten twice, and has lost a life before
C2_Witness ==
    /\ last = "eat" /\ score = 2 * EatScore /\ lives < StartLives
    /\ BagCardinality(food) = 4

\* C3: right after start() is called with score S, the poison set has
\* 6 + S div 5000 members, none of which was in the poison set before.
C3_StartPoison ==
    [][state # "PLAYING" /\ state' = "PLAYING" =>
         /\ BagCardinality(poison') = 6 + score' \div 5000
         /\ \A p \in BagToSet(poison') : ~BagIn(p, poison)]_vars

\* the resume timer has called start() with score 30000, over an old poison set
C3_Witness ==
    /\ last = "resume" /\ score = 30000
    /\ BagCardinality(poison) = 12

\* C4 as claimed: while PLAYING the poison set has 6 + score div 5000 members,
\* scores of 30000 and above included.
C4_Original == state = "PLAYING" => BagCardinality(poison) = 6 + score \div 5000

\* C4 as amended: while PLAYING the poison set has 6 + score div 5000 members
\* when score < 30000, and between 11 and 6 + score div 5000 when score >= 30000.
C4_PoisonCount ==
    state = "PLAYING" =>
        IF score < 30000
        THEN BagCardinality(poison) = 6 + score \div 5000
        ELSE /\ 11 <= BagCardinality(poison)
             /\ BagCardinality(poison) <= 6 + score \div 5000

\* eating has brought the score to 5000 and added the seventh poison item
C4_Witness ==
    /\ state = "PLAYING" /\ last = "eat" /\ score = 5000
    /\ BagCardinality(poison) = 7

\* C5: the score is a non-negative multiple of 100 and the speed is
\* 5 + score div 1000; eating adds 100 to the score and 1 to the speed exactly
\* when the new score is a multiple of 1000.
C5_ScoreSpeed ==
    /\ [](score >= 0 /\ score % 100 = 0 /\ speed = 5 + score \div 1000)
    /\ [][score' > score =>
            /\ score' = score + 100
            /\ speed' = IF score' % 1000 = 0 THEN speed + 1 ELSE speed]_vars

\* eating has brought the score to a multiple of 1000 and the speed up by one
C5_Witness == last = "eat" /\ score = 5000 /\ speed = 10

\* C6: a click that removes poison removes the items less than half their size
\* from it and adds one item for each, so that the poison set keeps its size and
\* its other items; food, target, score and lives are unchanged.
C6_Click ==
    [][last' = "click" =>
         \E position \in ClickPositions :
            LET near == {p \in BagToSet(poison) :
                            4 * Dist2(p.pos, position) < PoisonSize * PoisonSize}
                hits == [p \in near |-> CopiesIn(p, poison)]
            IN  /\ near # {}
                /\ (poison (-) hits) \sqsubseteq poison'
                /\ BagCardinality(poison') = BagCardinality(poison)
                /\ UNCHANGED <<food, target, score, lives, state>>]_vars

\* a click has removed poison and added as much: the six items lie in two places
C6_Witness ==
    /\ last = "click" /\ state = "PLAYING"
    /\ BagCardinality(poison) = MIN_POISON
    /\ Cardinality(BagToSet(poison)) > 1

\* C7: a position returned by good_position() lies in
\* [50, width-50] x [50, height-50], at least 200 from the ant and at least 50
\* from every member of the food set and of the poison set.
C7_GoodPosition ==
    last = "good_position" =>
        /\ 50 <= ret[1] /\ ret[1] <= Width - 50
        /\ 50 <= ret[2] /\ ret[2] <= Height - 50
        /\ Dist2(ret, antPos) >= 200 * 200
        /\ \A x \in BagToSet(food) \cup BagToSet(poison) : Dist2(x.pos, ret) >= 50 * 50

\* a position was returned although a food item lay less than 50 from another draw
C7_Witness ==
    /\ last = "good_position"
    /\ \E p \in RandomPositions :
          /\ p # ret
          /\ Dist2(p, antPos) >= 200 * 200
          /\ \E x \in BagToSet(food) : Dist2(x.pos, p) < 50 * 50 /\ x.pos # p
          /\ \A x \in BagToSet(poison) : Dist2(x.pos, p) >= 50 * 50

\* C8: while PLAYING the ant's target is a member of the food set.
C8_TargetInFood == state = "PLAYING" => target # NoTarget /\ BagIn(target, food)

\* the ant has eaten its target and has a new one
C8_Witness ==
    /\ state = "PLAYING" /\ last = "eat" /\ score = 2 * EatScore
    /\ BagIn(target, food)

\* C9: choose_food sets the target to the first item, in iteration order, of
\* those closest to the ant, and leaves it unchanged on an empty collection.
C9_ChooseFood ==
    last = "choose_food" =>
        IF arg = << >> THEN target = ret
        ELSE \E i \in 1..Len(arg) :
                /\ target = arg[i]
                /\ \A j \in 1..Len(arg) :
                      Dist2(antPos, arg[i].pos) <= Dist2(antPos, arg[j].pos)
                /\ \A j \in 1..(i - 1) :
                      Dist2(antPos, arg[i].pos) < Dist2(antPos, arg[j].pos)

\* two different items were closest, and the first of them is the target
C9_Witness ==
    /\ last = "choose_food"
    /\ \E i, j \in 1..Len(arg) :
          /\ i < j /\ arg[i] # arg[j] /\ target = arg[i]
          /\ Dist2(antPos, arg[i].pos) = Dist2(antPos, arg[j].pos)
          /\ \A k \in 1..Len(arg) : Dist2(antPos, arg[i].pos) <= Dist2(antPos, arg[k].pos)

\* C10: one move() turns the ant by at most speed * ROT either way.
C10_TurnBound ==
    last = "move" =>
        /\ -speed <= direction - NormDir(arg)
        /\ direction - NormDir(arg) <= speed

\* a move from a direction above pi whose turn was cut to the turn rate
C10_Witness ==
    /\ last = "move" /\ arg > PI
    /\ direction - NormDir(arg) = -speed

\* what the last REFRESH event did, when the ant has moved
Moved == {"move", "eat", "die", "eat_die"}

\* C11 as claimed: the stored direction lies in (-pi, pi] in every reachable
\* state, the state right after move() has added the turn included.
C11_Original == -PI < direction /\ direction <= PI

\* C11 as amended: only move() changes the stored direction; it brings it into
\* [-pi, pi] and then adds the turn, so that right after it the direction lies
\* within speed * ROT of that range.
C11_DirectionRange ==
    [][direction' # direction =>
         /\ last' \in Moved
         /\ -(PI + speed) <= direction' /\ direction' <= PI + speed
         /\ -speed <= direction' - NormDir(direction)
         /\ direction' - NormDir(direction) <= speed]_vars

\* a move has left the stored direction above pi
C11_Witness == last \in Moved /\ direction > PI

\* C12: the resume timer is armed exactly while the state is DYING and the
\* restart timer exactly while it is GAME_OVER (so never both); a timer-driven
\* transition happens only with its timer armed and leaves it disarmed, so that
\* one die() or game_over() is followed by no second one.
C12_Timers ==
    /\ []((startTimer <=> state = "DYING") /\ (restartTimer <=> state = "GAME_OVER"))
    /\ [][(state = "DYING" /\ state' # "DYING" =>
               startTimer /\ ~startTimer' /\ last' \in {"resume", "game_over"})
          /\ (state = "GAME_OVER" /\ state' # "GAME_OVER" =>
               restartTimer /\ ~restartTimer' /\ last' = "starting")
          /\ (state' = "DYING" /\ state # "DYING" =>
               state = "PLAYING" /\ lives' = lives - 1 /\ startTimer')
          /\ (state' = "GAME_OVER" /\ state # "GAME_OVER" =>
               state = "DYING" /\ restartTimer')]_vars

\* the restart timer has fired after a game over, and both timers are off
C12_Witness ==
    /\ state = "STARTING" /\ last = "starting" /\ lives = 0
    /\ ~startTimer /\ ~restartTimer

\* C13: a click while STARTING leads to PLAYING with lives = 3, score = 0 and
\* speed = 5; game_over() and the resume after a death leave score, lives and
\* speed unchanged; nothing else lowers the score or the speed or raises lives.
C13_Reset ==
    [][/\ (state = "STARTING" /\ state' # "STARTING" =>
              state' = "PLAYING" /\ lives' = 3 /\ score' = 0 /\ speed' = 5)
       /\ (state = "DYING" /\ state' # "DYING" => UNCHANGED <<score, lives, speed>>)
       /\ (score' < score \/ speed' < speed \/ lives' > lives =>
              state = "STARTING" /\ last' = "restart")]_vars

\* a new game has begun after one that ended with a score of 4900 or more and
\* a speed of 9 or more
C13_Witness ==
    /\ state = "PLAYING" /\ last = "restart"
    /\ lives = 3 /\ score = 0 /\ speed = 5

\* the shortest signed angle: subtract 2 pi above pi, add 2 pi below -pi
ShortestTurn(t) == IF t > PI THEN t - 2 * PI ELSE IF t < -PI THEN t + 2 * PI ELSE t

\* C14: the turn move() applies is theta minus the normalized direction, wrapped
\* into (-pi, pi] and clamped to the turn rate; when the wrapped angle is within
\* the turn rate the new direction is theta modulo 2 pi.
C14_ShortestTurn ==
    [][last' \in Moved /\ antPos' # antPos =>
         LET theta == Atan2(target.pos[2] - antPos[2], target.pos[1] - antPos[1])
             wrapped == ShortestTurn(theta - NormDir(direction))
         IN  /\ direction' - NormDir(direction) = ClampTurn(wrapped, speed)
             /\ (Abs(wrapped) <= speed => Wrap(direction') = Wrap(theta))]_vars

\* C15: while PLAYING any two distinct entities of the food set and the poison
\* set are at least 50 apart, those created by one start() call included.
C15_NoOverlap ==
    state = "PLAYING" =>
        LET all == food (+) poison
        IN  \A e \in BagToSet(all) :
               /\ CopiesIn(e, all) = 1
               /\ \A f \in BagToSet(all) \ {e} : Dist2(e.pos, f.pos) >= 50 * 50

\* C18: while STARTING, DYING or GAME_OVER a redraw tick changes nothing of the
\* game, and a click while DYING or GAME_OVER changes nothing; outside PLAYING
\* the entities, score, lives and speed change only by restart() and by the
\* resume timer's start().
C18_IdleFrame ==
    [][/\ (last' = "idle_tick" =>
              /\ state \in {"STARTING", "DYING", "GAME_OVER"}
              /\ UNCHANGED <<state, antPos, direction, target, score, lives, speed, food,
                             poison, startTimer, restartTimer, pc>>)
       /\ (last' = "idle_click" =>
              /\ state \in {"DYING", "GAME_OVER"}
              /\ UNCHANGED <<state, antPos, direction, target, score, lives, speed, food,
                             poison, startTimer, restartTimer, pc>>)
       /\ (state # "PLAYING" /\ <<antPos, direction, target, score, lives, speed, food,
                                  poison>>' # <<antPos, direction, target, score, lives,
                                                speed, food, poison>> =>
              last' \in {"restart", "resume"})]_vars

\* a redraw tick has come while DYING: the ant still lies on the poison
C18_Witness ==
    /\ state = "DYING" /\ last = "idle_tick"
    /\ \E p \in BagToSet(poison) :
          9 * Dist2(antPos, p.pos) < (AntSize + PoisonSize) * (AntSize + PoisonSize)

\* C19: 0 <= lives <= 3, PLAYING implies lives >= 1 and GAME_OVER implies
\* lives = 0.
C19_Lives ==
    /\ 0 <= lives /\ lives <= 3
    /\ state = "PLAYING" => lives >= 1
    /\ state = "GAME_OVER" => lives = 0

\* the last life is lost: DYING with no life left
C19_Witness == state = "DYING" /\ lives = 0 /\ last \in {"die", "eat_die"}

\* C20: whenever move() runs the ant is not on its target, so move() never
\* divides by a zero norm.
C20_NonZeroNorm ==
    /\ pc # "crashed"
    /\ state = "PLAYING" => antPos # target.pos

\* C16: in a tick while PLAYING the ant moves, then the eating check runs on
\* the new position, then the poisoning check: the ant within eating range of
\* its target is credited 100 and the food replaced also when it dies in the
\* same tick, and with any number of poison items in range exactly one life
\* is lost and the state becomes DYING.
C16_TickOrder ==
    [][state = "PLAYING" /\ antPos' # antPos =>
         LET eats == Dist2(antPos', target.pos) < speed * speed
             near == {p \in BagToSet(poison) :
                        9 * Dist2(antPos', p.pos) <
                            (AntSize + PoisonSize) * (AntSize + PoisonSize)}
         IN  /\ antPos' = MovePos(antPos, direction', speed)
             /\ IF eats
                THEN /\ score' = score + 100
                     /\ CopiesIn(target, food') = CopiesIn(target, food) - 1
                     /\ BagCardinality(food') = BagCardinality(food)
                ELSE UNCHANGED <<score, food>>
             /\ IF near # {}
                THEN lives' = lives - 1 /\ state' = "DYING"
                ELSE lives' = lives /\ state' = "PLAYING"]_vars

\* the ant has eaten and died in one tick, with two poison items in range
C16_Witness ==
    /\ last = "eat_die" /\ state = "DYING"
    /\ score = 30000
    /\ ~BagIn(FoodNear, food)
    /\ CopiesIn(PoisonNear, poison) = 2
    /\ 9 * Dist2(antPos, PoisonNear.pos) < (AntSize + PoisonSize) * (AntSize + PoisonSize)

\* C17: with the timer events delivered, as long as the event loop runs every
\* DYING state is followed by PLAYING when a life is left and by GAME_OVER when
\* none is, and every GAME_OVER state is followed by STARTING.
C17_TimersFire ==
    /\ (state = "DYING" /\ lives > 0 /\ pc = "running")
           ~> (state = "PLAYING" \/ pc # "running")
    /\ (state = "DYING" /\ lives = 0 /\ pc = "running")
           ~> (state = "GAME_OVER" \/ pc # "running")
    /\ (state = "GAME_OVER" /\ pc = "running")
           ~> (state = "STARTING" \/ pc # "running")

\* the resume timer has fired after a death late in the game, with one life left
C17_Witness == state = "PLAYING" /\ last = "resume" /\ lives = 1 /\ score = 30000

====
